---- MODULE Spec2Model ----
(***************************************************************************)
(* Model of src/website.py: the start-up pipeline that derives the         *)
(* campaign tables (lines 31-117) and the two Dash callbacks that read     *)
(* them (toggle_modal, update_time_graph).                                 *)
(*                                                                         *)
(* Text is a sequence of one-character strings, so that str.split,         *)
(* str.startswith, str.strip and re.sub are computed character by          *)
(* character.  A missing cell (NaN / None) of a text column is NaNName, of *)
(* a numeric column the empty sequence <<>>; a present number v is <<v>>.  *)
(***************************************************************************)
EXTENDS Integers, Sequences, FiniteSets, TLC

VARIABLES
    pc,                      \* position of the module-level script / server
    df,                      \* activity table (website.py:31)
    df_filtered,             \* activity rows of the selected campaigns (:68)
    members_df,              \* member table (:60)
    members_filtered,        \* first-contact member rows (:61)
    unique_parent_campaigns, \* (:65)
    first_interactions,      \* anchor per parent campaign (:75)
    tiles,                   \* v2_first_time_total, unique_eca, unique_campaigns
    response,                \* what the last callback returned
    name,                    \* argument of a clean_parent_campaign call
    cleaned,                 \* its result
    recleaned,               \* the result of cleaning the result
    removed                  \* prefixes the call stripped, in order

vars == <<pc, df, df_filtered, members_df, members_filtered,
          unique_parent_campaigns, first_interactions, tiles, response,
          name, cleaned, recleaned, removed>>

cleanVars == <<name, cleaned, recleaned, removed>>

(***************************************************************************)
(* Bounds of the model.                                                    *)
(***************************************************************************)
MaxPieces == 4
MaxRecs == 2
MaxMembers == 2

(***************************************************************************)
(* Text.                                                                   *)
(***************************************************************************)
\* U+2013, the en dash of the regular expression at website.py:110.
EnDash == "u2013"

\* The characters used, in code-point order (Python compares str by it).
Alphabet == <<" ", "-", ".", "1", "2", ":", "A", "B", "C", "E", "N", "O", "P", "R",
              "S", "T", "X", EnDash>>

Ord(c) == CHOOSE i \in 1..Len(Alphabet) : Alphabet[i] = c

NaNName == <<"NaN">>

IsStr(s) == s # NaNName

Drop(s, n) == SubSeq(s, n + 1, Len(s))

RECURSIVE LStrip(_)
LStrip(s) == IF s # <<>> /\ Head(s) = " " THEN LStrip(Tail(s)) ELSE s

RECURSIVE RStrip(_)
RStrip(s) ==
    IF s # <<>> /\ s[Len(s)] = " " THEN RStrip(SubSeq(s, 1, Len(s) - 1)) ELSE s

\* str.strip()
Strip(s) == RStrip(LStrip(s))

\* str.startswith(p)
StartsWith(s, p) == Len(s) >= Len(p) /\ SubSeq(s, 1, Len(p)) = p

Sep == <<" ", "-", " ">>

SepAt(s) == {i \in 1..Len(s) : i + 2 <= Len(s) /\ SubSeq(s, i, i + 2) = Sep}

\* " - " in name
HasSep(s) == SepAt(s) # {}

\* name.split(" - ", 1)[1]
AfterFirstSep(s) ==
    LET i == CHOOSE j \in SepAt(s) : \A k \in SepAt(s) : j <= k
    IN  Drop(s, i + 2)

prefixes == << <<"P","A","R","E","N","T","1",":"," ","C","E","C">>,
               <<"P","A","R","E","N","T"," ","1",":"," ","C","E","C">>,
               <<"P","A","R","E","N","T","1",":">>,
               <<"P","A","R","E","N","T"," ","1",":">>,
               <<"C","E","C">> >>

\* The loop over prefixes of clean_parent_campaign, from the k-th prefix on:
\* every prefix is tried, in list order, on what the earlier ones left.
RECURSIVE StripPrefixesFrom(_, _)
StripPrefixesFrom(s, k) ==
    IF k > Len(prefixes) THEN s
    ELSE IF StartsWith(s, prefixes[k])
         THEN StripPrefixesFrom(Strip(Drop(s, Len(prefixes[k]))), k + 1)
         ELSE StripPrefixesFrom(s, k + 1)

StripPrefixes(s) == StripPrefixesFrom(s, 1)

\* The indices of the prefixes that loop strips, in order.
RECURSIVE RemovedPrefixesFrom(_, _)
RemovedPrefixesFrom(s, k) ==
    IF k > Len(prefixes) THEN <<>>
    ELSE IF StartsWith(s, prefixes[k])
         THEN <<k>> \o RemovedPrefixesFrom(Strip(Drop(s, Len(prefixes[k]))), k + 1)
         ELSE RemovedPrefixesFrom(s, k + 1)

\* re.sub(r'^[\-\u2013]+', '', name)
RECURSIVE StripLeadingDashes(_)
StripLeadingDashes(s) ==
    IF s # <<>> /\ Head(s) \in {"-", EnDash} THEN StripLeadingDashes(Tail(s)) ELSE s

AfterSplit(s) == IF HasSep(s) THEN Strip(AfterFirstSep(s)) ELSE s

clean_parent_campaign(s) ==
    IF IsStr(s)
    THEN Strip(Strip(StripLeadingDashes(StripPrefixes(AfterSplit(s)))))
    ELSE s

\* The prefixes one call strips from its argument.
RemovedBy(s) == IF IsStr(s) THEN RemovedPrefixesFrom(AfterSplit(s), 1) ELSE <<>>

(***************************************************************************)
(* Calls of clean_parent_campaign on names put together from the pieces    *)
(* the function looks for.                                                 *)
(***************************************************************************)
Pieces == {prefixes[i] : i \in 1..Len(prefixes)}
              \cup {Sep, <<" ">>, <<"-">>, <<EnDash>>, <<"X">>}

RECURSIVE Concat(_)
Concat(ps) == IF ps = <<>> THEN <<>> ELSE Head(ps) \o Concat(Tail(ps))

RawTexts ==
    {Concat(ps) : ps \in UNION {[1..n -> Pieces] : n \in 0..MaxPieces}}

Idle == <<"idle">>

InitClean ==
    /\ name \in RawTexts \cup {NaNName}
    /\ cleaned = Idle
    /\ recleaned = Idle
    /\ removed = <<>>
    /\ pc = "clean"
    /\ df = <<>>
    /\ df_filtered = <<>>
    /\ members_df = <<>>
    /\ members_filtered = <<>>
    /\ unique_parent_campaigns = <<>>
    /\ first_interactions = <<>>
    /\ tiles = <<>>
    /\ response = <<>>

\* clean_parent_campaign(name)
CleanCall ==
    /\ pc = "clean"
    /\ cleaned' = clean_parent_campaign(name)
    /\ removed' = RemovedBy(name)
    /\ pc' = "cleaned"
    /\ UNCHANGED <<name, recleaned, df, df_filtered, members_df, members_filtered,
                   unique_parent_campaigns, first_interactions, tiles, response>>

\* clean_parent_campaign(clean_parent_campaign(name))
CleanAgain ==
    /\ pc = "cleaned"
    /\ recleaned' = clean_parent_campaign(cleaned)
    /\ pc' = "recleaned"
    /\ UNCHANGED <<name, cleaned, removed, df, df_filtered, members_df,
                   members_filtered, unique_parent_campaigns, first_interactions,
                   tiles, response>>

NextClean == CleanCall \/ CleanAgain

SpecClean == InitClean /\ [][NextClean]_vars

(***************************************************************************)
(* Tables.  A table is the sequence of its rows, a row a record of its     *)
(* cells.  idx is the row label pandas gives at read_excel; a derived      *)
(* column holds <<>> until the script computes it.                         *)
(***************************************************************************)
\* The interaction types compared at website.py:45-46, 62-63, 76-77, 83-84
\* and the third of ordered_types (:267).
Inquiry == "1st Time Inquiry - Requested by Org or Group"
Outreach == "1st Time Outreach - Initiated by ECA Staff"
FollowUp == "Follow Up Project Planning or Problem-Solving Meeting"

ordered_types == <<Inquiry, Outreach, FollowUp>>

\* (t == "1st Time Inquiry ...") | (t == "1st Time Outreach ...")
IsFirstTime(t) == t \in {Inquiry, Outreach}

NaN == <<>>

\* a - b on nullable numbers
Sub(a, b) == IF a = NaN \/ b = NaN THEN NaN ELSE <<a[1] - b[1]>>

\* Python's < on str
RECURSIVE StrLess(_, _)
StrLess(a, b) ==
    IF b = <<>> THEN FALSE
    ELSE IF a = <<>> THEN TRUE
    ELSE IF Head(a) = Head(b) THEN StrLess(Tail(a), Tail(b))
    ELSE Ord(Head(a)) < Ord(Head(b))

\* Order of sort_values(by=['parentcampaignname', 'num_startdate']):
\* ascending on both keys, missing values last.
KeyLess(r1, r2) ==
    LET p1 == r1.parentcampaignname
        p2 == r2.parentcampaignname
        d1 == r1.num_startdate
        d2 == r2.num_startdate
    IN  IF p1 # p2
        THEN IF p1 = NaNName THEN FALSE
             ELSE IF p2 = NaNName THEN TRUE
             ELSE StrLess(p1, p2)
        ELSE IF d1 = d2 \/ d1 = NaN THEN FALSE
             ELSE IF d2 = NaN THEN TRUE
             ELSE d1[1] < d2[1]

\* r put into the sorted rows behind every row that is not greater.
InsertSorted(rows, r) ==
    LET before == {i \in 1..Len(rows) : KeyLess(r, rows[i])}
        at == IF before = {} THEN Len(rows) + 1
              ELSE CHOOSE i \in before : \A j \in before : i <= j
    IN  SubSeq(rows, 1, at - 1) \o <<r>> \o SubSeq(rows, at, Len(rows))

RECURSIVE SortInto(_, _)
SortInto(acc, rows) ==
    IF rows = <<>> THEN acc ELSE SortInto(InsertSorted(acc, Head(rows)), Tail(rows))

\* df.sort_values(by=[...]) : the multi-key sort of pandas is stable.
sort_values(rows) == SortInto(<<>>, rows)

\* df.groupby('parentcampaignname').cumcount() + 1
num_campaigns(rows) ==
    [i \in 1..Len(rows) |->
        [rows[i] EXCEPT !.num_campaigns =
            <<Cardinality({j \in 1..i : rows[j].parentcampaignname
                                          = rows[i].parentcampaignname})>>]]

\* Series.unique(): the values in order of first appearance.
RECURSIVE UniqueInto(_, _)
UniqueInto(acc, vals) ==
    IF vals = <<>> THEN acc
    ELSE IF \E i \in 1..Len(acc) : acc[i] = Head(vals)
         THEN UniqueInto(acc, Tail(vals))
         ELSE UniqueInto(Append(acc, Head(vals)), Tail(vals))

Unique(vals) == UniqueInto(<<>>, vals)

Range(f) == {f[i] : i \in DOMAIN f}

ParentColumn(rows) == [i \in 1..Len(rows) |-> rows[i].parentcampaignname]

FirstTimeRows(rows) == SelectSeq(rows, LAMBDA r : IsFirstTime(r.interactiontype))

\* df[df['parentcampaignname'].isin(unique_parent_campaigns)]
IsIn(rows, names) ==
    SelectSeq(rows, LAMBDA r : r.parentcampaignname \in Range(names))

Min(S) == CHOOSE x \in S : \A y \in S : x <= y
Max(S) == CHOOSE x \in S : \A y \in S : x >= y

\* groupby('parentcampaignname')['num_startdate'].min() over the first-time
\* rows: one entry per parent name that has such a row, NaN when none of
\* them has a day-index.
FirstInteractions(rows) ==
    LET first == FirstTimeRows(rows)
        keys == {r.parentcampaignname : r \in Range(first)} \ {NaNName}
        days(k) == {r.num_startdate[1] : r \in
                       {q \in Range(first) : q.parentcampaignname = k
                                             /\ q.num_startdate # NaN}}
    IN  [k \in keys |-> IF days(k) = {} THEN NaN ELSE <<Min(days(k))>>]

\* row['num_startdate'] - first_interactions[row['parentcampaignname']]
DaysFromFirst(rows, anchors) ==
    [i \in 1..Len(rows) |->
        [rows[i] EXCEPT !.days_from_first =
            Sub(rows[i].num_startdate, anchors[rows[i].parentcampaignname])]]

\* Mask with the second first-time type left out of the disjunction.
MaskInquiryOnly(r) == /\ r.days_from_first # NaN
                      /\ r.days_from_first[1] > 0
                      /\ r.interactiontype = Inquiry

\* mask = (days_from_first > 0) & first-time; df_filtered.loc[mask, ...] = None
Mask(r) == /\ r.days_from_first # NaN
           /\ r.days_from_first[1] > 0
           /\ IsFirstTime(r.interactiontype)

Suppressed(rows) ==
    [i \in 1..Len(rows) |->
        IF Mask(rows[i]) THEN [rows[i] EXCEPT !.days_from_first = NaN] ELSE rows[i]]

\* column.apply(clean_parent_campaign)
CleanColumn(rows) ==
    [i \in 1..Len(rows) |->
        [rows[i] EXCEPT !.parentcampaignname = clean_parent_campaign(@)]]

(***************************************************************************)
(* update_time_graph.                                                      *)
(***************************************************************************)
SiteColumn(rows, site) == SelectSeq(rows, LAMBDA r : r.site = site)

\* Series.max(): the greatest present value, NaN when there is none.
MaxDays(rows) ==
    LET present == {r.days_from_first[1] : r \in
                       {q \in Range(rows) : q.days_from_first # NaN}}
    IN  IF present = {} THEN NaN ELSE <<Max(present)>>

\* Line 307: a "1st Time" row whose offset is not 0 is skipped (NaN != 0).
Skipped(type, r) == IsFirstTime(type) /\ r.days_from_first # <<0>>

\* int(row['days_from_first']) raises ValueError on NaN (lines 321, 325).
LoopRaises(rows) ==
    \E r \in Range(rows) :
        /\ r.interactiontype \in Range(ordered_types)
        /\ ~Skipped(r.interactiontype, r)
        /\ r.days_from_first = NaN

\* int(filtered_df['days_from_first'].max()) raises ValueError on NaN (:338).
LayoutRaises(rows) == MaxDays(rows) = NaN

\* A trace: its kind, y, x and customdata (a Bar is named by its y, a
\* Scatter by the interaction type its customdata ends with).
Bar(campaign, rows) ==
    [trace |-> "Bar", y |-> campaign,
     x |-> MaxDays(SelectSeq(rows, LAMBDA r : r.parentcampaignname = campaign)),
     customdata |-> <<>>]

Scatter(campaign, type, r) ==
    [trace |-> "Scatter", y |-> campaign, x |-> r.days_from_first,
     customdata |-> <<campaign, r.days_from_first[1], type>>]

\* The traces of one (interaction type, parent campaign) pair, lines 294-328.
CampaignTraces(rows, type, campaign) ==
    LET campaign_data ==
            SelectSeq(rows, LAMBDA r : /\ r.interactiontype = type
                                       /\ r.parentcampaignname = campaign)
        shown == SelectSeq(campaign_data, LAMBDA r : ~Skipped(type, r))
    IN  (IF type = ordered_types[1] THEN <<Bar(campaign, rows)>> ELSE <<>>)
        \o [i \in 1..Len(shown) |-> Scatter(campaign, type, shown[i])]

RECURSIVE TypeTraces(_, _, _)
TypeTraces(rows, type, campaigns) ==
    IF campaigns = <<>> THEN <<>>
    ELSE CampaignTraces(rows, type, Head(campaigns))
             \o TypeTraces(rows, type, Tail(campaigns))

RECURSIVE AllTraces(_, _)
AllTraces(rows, types) ==
    IF types = <<>> THEN <<>>
    ELSE (IF \E r \in Range(rows) : r.interactiontype = Head(types)
          THEN TypeTraces(rows, Head(types), Unique(ParentColumn(rows)))
          ELSE <<>>)
         \o AllTraces(rows, Tail(types))

EmptyFigure(raised) == [figure |-> "empty", error |-> raised, traces |-> <<>>]

\* A falsy selected_site (None, or the empty text).
NoSite == ""

\* The figure update_time_graph returns for a site.
Figure(table, selected_site) ==
    LET filtered_df == IF selected_site # NoSite
                       THEN SiteColumn(table, selected_site) ELSE table
    IN  IF filtered_df = <<>> THEN EmptyFigure(FALSE)
        ELSE IF LoopRaises(filtered_df) \/ LayoutRaises(filtered_df)
             THEN EmptyFigure(TRUE)
             ELSE [figure |-> "timeline", error |-> FALSE,
                   traces |-> AllTraces(filtered_df, ordered_types)]

(***************************************************************************)
(* toggle_modal.                                                           *)
(***************************************************************************)
\* Dash's prop_id of a pattern-matching id is the JSON text of the id,
\* keys sorted, followed by ".<property>".  The two JSON frames around the
\* index are one token each.
JsonOpen == "{\"index\":\""
JsonClose == "\",\"type\":\"campaign-button\"}"

ButtonPropId(index) == <<JsonOpen>> \o index \o <<JsonClose, ".", "n_clicks">>
ClosePropId == <<"close-modal", ".", "n_clicks">>
ClickPropId == <<"time-graph", ".", "clickData">>

\* sub in text
Within(sub, text) ==
    \E i \in 0..Len(text) :
        i + Len(sub) <= Len(text) /\ SubSeq(text, i + 1, i + Len(sub)) = sub

\* text.split('.')[0]
BeforeDot(text) ==
    LET dots == {i \in 1..Len(text) : text[i] = "."}
    IN  IF dots = {} THEN text ELSE SubSeq(text, 1, Min(dots) - 1)

\* json.loads: the text must be the whole JSON object.
JsonLoads(text) ==
    IF /\ Len(text) >= 2
       /\ text[1] = JsonOpen
       /\ text[Len(text)] = JsonClose
       /\ \A i \in 2..(Len(text) - 1) : text[i] \notin {JsonOpen, JsonClose}
    THEN [ok |-> TRUE, index |-> SubSeq(text, 2, Len(text) - 1)]
    ELSE [ok |-> FALSE, index |-> <<>>]

\* None; a clickData object cd is <<cd>>.
None == <<>>

Closed == [is_open |-> FALSE, body |-> [kind |-> "blank"]]
NoData == [is_open |-> TRUE, body |-> [kind |-> "nodata"]]
Failed == [is_open |-> FALSE, body |-> [kind |-> "error"]]

\* members_df[members_df['Parent Campaign: Campaign Name'] == campaign_name]
CampaignData(table, campaign_name) ==
    SelectSeq(table, LAMBDA r : /\ IsStr(campaign_name)
                                /\ r.parentcampaignname = campaign_name)

\* sorted(...) of distinct text values
RECURSIVE Sorted(_)
Sorted(S) ==
    IF S = {} THEN <<>>
    ELSE LET m == CHOOSE x \in S : \A y \in S \ {x} : StrLess(x, y)
         IN  <<m>> \o Sorted(S \ {m})

SubCampaigns(campaign_data) == {r.campaignname : r \in Range(campaign_data)}

\* rows of one sub-campaign that groupby('ECA Affiliation Name') keeps
Grouped(campaign_data, sub) ==
    {r \in Range(campaign_data) :
        /\ sub # NaNName /\ r.campaignname = sub
        /\ r.ecaaffiliationname # NaNName}

\* sorted() of text mixed with NaN and ", ".join of a NaN raise TypeError.
DetailsRaise(campaign_data) ==
    \/ /\ NaNName \in SubCampaigns(campaign_data)
       /\ Cardinality(SubCampaigns(campaign_data)) > 1
    \/ \E sub \in SubCampaigns(campaign_data) :
          \E r \in Grouped(campaign_data, sub) : r.fullname = NaNName

\* Affiliations with .first() in place of .apply(list): one name a group.
AffiliationsFirst(campaign_data, sub) ==
    LET rows == Grouped(campaign_data, sub)
        ecas == Sorted({r.ecaaffiliationname : r \in rows})
    IN  [i \in 1..Len(ecas) |->
            [eca |-> ecas[i],
             names |-> SubSeq(Sorted({r.fullname : r \in
                                 {q \in rows : q.ecaaffiliationname = ecas[i]}}), 1, 1)]]

Affiliations(campaign_data, sub) ==
    LET rows == Grouped(campaign_data, sub)
        ecas == Sorted({r.ecaaffiliationname : r \in rows})
    IN  [i \in 1..Len(ecas) |->
            [eca |-> ecas[i],
             names |-> Sorted({r.fullname : r \in
                                 {q \in rows : q.ecaaffiliationname = ecas[i]}})]]

\* sorted(unique()) of the sub-campaigns; a lone NaN sorts without a compare
SortedSubs(campaign_data) ==
    IF SubCampaigns(campaign_data) = {NaNName} THEN <<NaNName>>
    ELSE Sorted(SubCampaigns(campaign_data))

Details(campaign_data, campaign_name, days_after) ==
    LET subs == SortedSubs(campaign_data)
    IN  [is_open |-> TRUE,
         body |-> [kind |-> "details", title |-> campaign_name,
                   subs |-> [i \in 1..Len(subs) |->
                               [sub_campaign |-> subs[i],
                                affiliations |-> Affiliations(campaign_data, subs[i])]],
                   days_after |-> days_after]]

\* Lines 228-250, inside the try block.
Lookup(table, campaign_name, days_after) ==
    LET campaign_data == CampaignData(table, campaign_name)
    IN  IF campaign_data = <<>> THEN NoData
        ELSE IF DetailsRaise(campaign_data) THEN Failed
        ELSE Details(campaign_data, campaign_name, days_after)

\* What toggle_modal returns for a request.
ToggleModal(table, req) ==
    IF ~req.triggered THEN Closed
    ELSE IF Within(<<"close-modal">>, req.prop_id) THEN Closed
    ELSE IF Within(<<JsonClose>>, req.prop_id)    \* "campaign-button" in it
         THEN LET button_id == JsonLoads(BeforeDot(req.prop_id))
              IN  IF button_id.ok THEN Lookup(table, button_id.index, None)
                  ELSE Failed
    ELSE IF Within(ClickPropId, req.prop_id)
         THEN IF req.click_data = None THEN Failed
              ELSE Lookup(table, req.click_data[1].points[1].customdata[1],
                          <<req.click_data[1].points[1].customdata[2]>>)
    ELSE Closed

(***************************************************************************)
(* The spreadsheets read at start-up, and the requests served.             *)
(***************************************************************************)
X == <<"X">>
CecX == <<"C", "E", "C", " ", "X">>

ActivityNames == {X, CecX}
Days == {<<50>>, <<60>>, NaN}
Sites == {"N", "S"}

ActivityRow(i, p, t, d, s) ==
    [idx |-> i, parentcampaignname |-> p, interactiontype |-> t,
     num_startdate |-> d, site |-> s, num_campaigns |-> NaN,
     days_from_first |-> NaN]

\* Every name, type and day at site "N", and two rows at site "S".
ActivityCells ==
    (ActivityNames \X Range(ordered_types) \X Days \X {"N"})
        \cup {<<X, Inquiry, <<50>>, "S">>, <<X, FollowUp, <<60>>, "S">>}

ActivityTables(n) ==
    {[i \in DOMAIN c |-> ActivityRow(i, c[i][1], c[i][2], c[i][3], c[i][4])] :
        c \in UNION {[1..m -> ActivityCells] : m \in 0..n}}

MemberRow(t, p, e, c, f) ==
    [interactiontype |-> t, parentcampaignname |-> p,
     ecaaffiliationname |-> e, campaignname |-> c, fullname |-> f]

Eca == <<"E", "C", "A">>
S1 == <<"S", "1">>
S2 == <<"S", "2">>
Ann == <<"A", "N", "N">>
Bob == <<"B", "O", "B">>

\* Rows that differ in what the tiles read (type, parent campaign), and
\* rows of one campaign that differ in what the details read.
MemberRows ==
    {MemberRow(t, p, Eca, S1, Ann) :
        t \in {Inquiry, FollowUp}, p \in {X, CecX, NaNName}}
    \cup {MemberRow(Inquiry, X, e, c, f) :
        e \in {Eca, NaNName}, c \in {S1, S2, NaNName}, f \in {Ann, Bob, NaNName}}

MemberTables(n) == UNION {[1..m -> MemberRows] : m \in 0..n}

\* The member tables used while the activity table varies.
SelectorTables ==
    { <<MemberRow(Inquiry, X, Eca, S1, Ann)>>,
      <<MemberRow(Inquiry, X, Eca, S1, Ann),
        MemberRow(Outreach, CecX, NaNName, S1, Bob)>> }

\* The activity table used while the member table varies.
ReferenceTables ==
    { <<ActivityRow(1, X, Inquiry, <<50>>, "N"),
        ActivityRow(2, CecX, FollowUp, <<60>>, "S")>> }

NoResponse == [call |-> "none"]

InitPipeline ==
    /\ pc = "start"
    /\ df_filtered = <<>>
    /\ members_filtered = <<>>
    /\ unique_parent_campaigns = <<>>
    /\ first_interactions = <<>>
    /\ tiles = <<>>
    /\ response = NoResponse
    /\ name = NaNName
    /\ cleaned = Idle
    /\ recleaned = Idle
    /\ removed = <<>>

Init ==
    /\ df \in ActivityTables(MaxRecs)
    /\ members_df \in SelectorTables
    /\ InitPipeline

InitMembers ==
    /\ df \in ReferenceTables
    /\ members_df \in MemberTables(MaxMembers)
    /\ InitPipeline

(***************************************************************************)
(* The module-level script, lines 31-117.                                  *)
(***************************************************************************)
\* Lines 32-56: day-index, sort, sequence rank.  num_startdate is read as
\* lines 33-39 leave it: the whole days from STATA_EPOCH to the start date,
\* missing where the date text does not parse.  The indicator columns of
\* lines 43-56 and 69-73 are read by nothing that follows and are left out.
ProcessMain ==
    /\ pc = "start"
    /\ df' = num_campaigns(sort_values(df))
    /\ pc' = "main"
    /\ UNCHANGED <<df_filtered, members_df, members_filtered,
                   unique_parent_campaigns, first_interactions, tiles, response>>
    /\ UNCHANGED cleanVars

\* Lines 60-73: the first-time member rows select the parent campaigns.
ProcessMembers ==
    /\ pc = "main"
    /\ members_filtered' = FirstTimeRows(members_df)
    /\ unique_parent_campaigns' = Unique(ParentColumn(FirstTimeRows(members_df)))
    /\ df_filtered' = IsIn(df, Unique(ParentColumn(FirstTimeRows(members_df))))
    /\ pc' = "members"
    /\ UNCHANGED <<df, members_df, first_interactions, tiles, response>>
    /\ UNCHANGED cleanVars

\* Lines 75-81: anchors, then one look-up and subtraction per row.
ComputeOffsets ==
    /\ pc = "members"
    /\ df_filtered # <<>>
    /\ \A r \in Range(df_filtered) :
           r.parentcampaignname \in DOMAIN FirstInteractions(df_filtered)
    /\ first_interactions' = FirstInteractions(df_filtered)
    /\ df_filtered' = DaysFromFirst(df_filtered, FirstInteractions(df_filtered))
    /\ pc' = "offsets"
    /\ UNCHANGED <<df, members_df, members_filtered, unique_parent_campaigns,
                   tiles, response>>
    /\ UNCHANGED cleanVars

\* Line 80: first_interactions[...] raises KeyError for a parent campaign
\* without a first-time row; nothing catches it and the import fails.
ComputeOffsetsKeyError ==
    /\ pc = "members"
    /\ \E r \in Range(df_filtered) :
           r.parentcampaignname \notin DOMAIN FirstInteractions(df_filtered)
    /\ first_interactions' = FirstInteractions(df_filtered)
    /\ pc' = "fault"
    /\ UNCHANGED <<df, df_filtered, members_df, members_filtered,
                   unique_parent_campaigns, tiles, response>>
    /\ UNCHANGED cleanVars

\* Line 79: on a frame without rows apply(axis=1) returns the frame itself,
\* and assigning a frame of several columns to one column raises ValueError.
ComputeOffsetsNoRows ==
    /\ pc = "members"
    /\ df_filtered = <<>>
    /\ first_interactions' = FirstInteractions(df_filtered)
    /\ pc' = "fault"
    /\ UNCHANGED <<df, df_filtered, members_df, members_filtered,
                   unique_parent_campaigns, tiles, response>>
    /\ UNCHANGED cleanVars

\* Lines 82-86.
Suppress ==
    /\ pc = "offsets"
    /\ df_filtered' = Suppressed(df_filtered)
    /\ pc' = "timeline"
    /\ UNCHANGED <<df, members_df, members_filtered, unique_parent_campaigns,
                   first_interactions, tiles, response>>
    /\ UNCHANGED cleanVars

\* len(unique_parent_campaigns)
unique_campaigns(names) == Len(names)

\* Lines 90-98; v2_path is the file df was read from.
Tiles ==
    /\ pc = "timeline"
    /\ tiles' = [v2_first_time_total |-> Len(FirstTimeRows(df)),
                 unique_eca |->
                     Cardinality({r.ecaaffiliationname : r \in Range(members_filtered)}
                                     \ {NaNName}),
                 unique_campaigns |-> unique_campaigns(unique_parent_campaigns)]
    /\ pc' = "tiles"
    /\ UNCHANGED <<df, df_filtered, members_df, members_filtered,
                   unique_parent_campaigns, first_interactions, response>>
    /\ UNCHANGED cleanVars

\* Lines 114-117.
CleanNames ==
    /\ pc = "tiles"
    /\ df' = CleanColumn(df)
    /\ df_filtered' = CleanColumn(df_filtered)
    /\ members_df' = CleanColumn(members_df)
    /\ members_filtered' = CleanColumn(members_filtered)
    /\ pc' = "serving"
    /\ UNCHANGED <<unique_parent_campaigns, first_interactions, tiles, response>>
    /\ UNCHANGED cleanVars

(***************************************************************************)
(* The callbacks.                                                          *)
(***************************************************************************)
Other == <<"O">>
Dotted == <<"X", ".">>

\* Campaign ids a request may carry: those of the member table, and two
\* that no table holds.
RequestIds ==
    ({r.parentcampaignname : r \in Range(members_df)} \ {NaNName})
        \cup {Other, Dotted}

ClickData(customdata) == <<[points |-> <<[customdata |-> customdata]>>]>>

\* The customdata of the markers of the unfiltered figure.
MarkerData ==
    {t.customdata : t \in {u \in Range(Figure(df_filtered, NoSite).traces) :
                              u.trace = "Scatter"}}

Requests ==
    {[triggered |-> FALSE, prop_id |-> <<>>, click_data |-> None],
     [triggered |-> TRUE, prop_id |-> ClosePropId, click_data |-> None],
     [triggered |-> TRUE, prop_id |-> ClickPropId, click_data |-> None]}
    \cup {[triggered |-> TRUE, prop_id |-> ButtonPropId(id), click_data |-> None] :
             id \in RequestIds}
    \cup {[triggered |-> TRUE, prop_id |-> ClickPropId, click_data |-> ClickData(cd)] :
             cd \in MarkerData \cup {<<Other, 10, FollowUp>>}}

toggle_modal ==
    /\ pc = "serving"
    /\ \E req \in Requests :
           response' = [call |-> "toggle_modal", request |-> req,
                        result |-> ToggleModal(members_df, req)]
    /\ UNCHANGED <<pc, df, df_filtered, members_df, members_filtered,
                   unique_parent_campaigns, first_interactions, tiles>>
    /\ UNCHANGED cleanVars

\* update_time_graph when the site filter is applied to the shared table.
update_time_graph_in_place ==
    /\ pc = "serving"
    /\ \E selected_site \in Sites \cup {NoSite} :
           /\ df_filtered' = IF selected_site # NoSite
                             THEN SiteColumn(df_filtered, selected_site)
                             ELSE df_filtered
           /\ response' = [call |-> "update_time_graph", request |-> selected_site,
                           result |-> Figure(df_filtered, selected_site)]
    /\ UNCHANGED <<pc, df, members_df, members_filtered,
                   unique_parent_campaigns, first_interactions, tiles>>
    /\ UNCHANGED cleanVars

update_time_graph ==
    /\ pc = "serving"
    /\ \E selected_site \in Sites \cup {NoSite} :
           response' = [call |-> "update_time_graph", request |-> selected_site,
                        result |-> Figure(df_filtered, selected_site)]
    /\ UNCHANGED <<pc, df, df_filtered, members_df, members_filtered,
                   unique_parent_campaigns, first_interactions, tiles>>
    /\ UNCHANGED cleanVars

Next ==
    \/ ProcessMain
    \/ ProcessMembers
    \/ ComputeOffsets
    \/ ComputeOffsetsKeyError
    \/ ComputeOffsetsNoRows
    \/ Suppress
    \/ Tiles
    \/ CleanNames
    \/ toggle_modal
    \/ update_time_graph

Spec == Init /\ [][Next]_vars

SpecMembers == InitMembers /\ [][Next]_vars

(***************************************************************************)
(* Properties.                                                             *)
(***************************************************************************)
Built == pc \in {"timeline", "tiles", "serving"}

CampaignRows(rows, campaign) ==
    {r \in Range(rows) : r.parentcampaignname = campaign}

\* The least day-index among the first-time rows of a campaign, NaN if none.
Anchor(rows, campaign) ==
    LET days == {r.num_startdate[1] : r \in
                    {q \in CampaignRows(rows, campaign) :
                        IsFirstTime(q.interactiontype) /\ q.num_startdate # NaN}}
    IN  IF days = {} THEN NaN ELSE <<Min(days)>>

FirstTimeMarkers ==
    {t \in Range(response.result.traces) :
        t.trace = "Scatter" /\ IsFirstTime(t.customdata[3])}

\* C1: once the timeline is built, in every parent campaign that has an
\* anchor each first-time row at the anchor has offset 0 and every other
\* first-time row has offset 0 or none, never a positive one; and
\* update_time_graph puts no first-time marker at an offset other than 0.
C1_FirstContactAtZero ==
    /\ Built =>
         \A r \in Range(df_filtered) :
            (IsFirstTime(r.interactiontype)
               /\ Anchor(df_filtered, r.parentcampaignname) # NaN)
            => /\ r.days_from_first \in {<<0>>, NaN}
               /\ r.num_startdate = Anchor(df_filtered, r.parentcampaignname)
                    => r.days_from_first = <<0>>
    /\ response.call = "update_time_graph" =>
         \A t \in FirstTimeMarkers : t.x = <<0>>

\* A campaign with first-time rows at two days, offsets 0 and none, and a
\* first-time marker drawn.
C1_Witness ==
    /\ pc = "serving"
    /\ \E r1, r2 \in Range(df_filtered) :
          /\ r1.parentcampaignname = r2.parentcampaignname
          /\ IsFirstTime(r1.interactiontype) /\ IsFirstTime(r2.interactiontype)
          /\ r1.num_startdate = <<50>> /\ r2.num_startdate = <<60>>
          /\ r1.days_from_first = <<0>> /\ r2.days_from_first = NaN
    /\ response.call = "update_time_graph"
    /\ FirstTimeMarkers # {}

\* C2: records whose raw parent names clean to the same canonical name use
\* one anchor, the least day-index of all first-time records carrying that
\* canonical name, and before suppression days_from_first is the record's
\* day-index minus that anchor.
C2_AnchorOfCanonicalName ==
    pc = "offsets" =>
        LET canon == CleanColumn(df_filtered)
        IN  \A i \in 1..Len(df_filtered) :
               df_filtered[i].days_from_first =
                   Sub(df_filtered[i].num_startdate,
                       Anchor(canon, canon[i].parentcampaignname))

DayBefore(d1, d2) == d1 # NaN /\ (d2 = NaN \/ d1[1] < d2[1])

\* C3: in the final tables the ranks num_campaigns of the records of one
\* (canonical) parent campaign are a permutation of 1..N, ascending in
\* day-index with missing days last, equal days in input order.
C3_RanksArePermutation ==
    pc = "serving" =>
        \A c \in Range(ParentColumn(df)) :
            LET rows == CampaignRows(df, c)
            IN  /\ {r.num_campaigns[1] : r \in rows} = 1..Cardinality(rows)
                /\ \A r1, r2 \in rows :
                      r1.num_campaigns[1] < r2.num_campaigns[1] =>
                          /\ ~DayBefore(r2.num_startdate, r1.num_startdate)
                          /\ r1.num_startdate = r2.num_startdate => r1.idx < r2.idx

\* A parent campaign selected into df_filtered without a first-time row.
MissingAnchor ==
    /\ pc \notin {"start", "main", "clean", "cleaned", "recleaned"}
    /\ \E r \in Range(df_filtered) :
          \A q \in CampaignRows(df_filtered, r.parentcampaignname) :
              ~IsFirstTime(q.interactiontype)

\* C4: a selected parent campaign without a first-time activity record
\* does not stop the build: the script goes on, the campaign's offsets
\* are all undefined, and its rows stay in the table.
C4_MissingAnchorRecovered ==
    MissingAnchor =>
        /\ pc # "fault"
        /\ pc # "members" =>
              \A r \in Range(df_filtered) :
                  (\A q \in CampaignRows(df_filtered, r.parentcampaignname) :
                      ~IsFirstTime(q.interactiontype))
                  => r.days_from_first = NaN

IsDetails == /\ response.call = "toggle_modal"
             /\ response.result.body.kind = "details"

\* The participant names in the nested summary of a details body.
Flattened(body) ==
    UNION {UNION {Range(a.names) : a \in Range(s.affiliations)} :
              s \in Range(body.subs)}

C7_TileCountsCanonicalNames ==
    pc = "serving" =>
        tiles.unique_campaigns =
            Cardinality({r.parentcampaignname : r \in Range(members_filtered)}
                            \ {NaNName})

IsButtonClick(req) == req.triggered /\ Within(<<JsonClose>>, req.prop_id)

IsPointClick(req) ==
    req.triggered /\ req.prop_id = ClickPropId /\ req.click_data # None

\* The campaign id a detail request carries.
RequestedId(req) ==
    IF IsButtonClick(req) THEN SubSeq(req.prop_id, 2, Len(req.prop_id) - 3)
    ELSE req.click_data[1].points[1].customdata[1]

\* C8: a detail request (button or timeline point) for a campaign id that
\* matches no member record gets the no-data result.
C8_UnknownIdGivesNoData ==
    (/\ response.call = "toggle_modal"
     /\ IsButtonClick(response.request) \/ IsPointClick(response.request)
     /\ CampaignRows(members_df, RequestedId(response.request)) = {})
    => response.result = NoData

tables == <<df, df_filtered, members_df, members_filtered,
            unique_parent_campaigns, first_interactions, tiles>>

\* C10: once the start-up script is through, no request changes the shared
\* tables or stops the server, whether it succeeds, finds no data or fails
\* inside; what a request returns depends on its input and the tables only.
C10_RequestsLeaveTables ==
    [][pc = "serving" =>
          /\ tables' = tables
          /\ pc' = "serving"
          /\ response'.call = "toggle_modal" =>
                response'.result = ToggleModal(members_df, response'.request)
          /\ response'.call = "update_time_graph" =>
                response'.result = Figure(df_filtered, response'.request)]_vars

\* A request that failed inside and was answered with the error result.
C10_Witness ==
    /\ pc = "serving"
    /\ \/ response.call = "update_time_graph" /\ response.result.error
       \/ response.call = "toggle_modal" /\ response.result = Failed

\* C5: clean_parent_campaign is idempotent: cleaning the result of a call
\* gives that result again, for every text or non-text name.
C5_Idempotent == pc = "recleaned" => recleaned = cleaned

\* C9: one call of clean_parent_campaign strips at most one of the listed
\* prefixes (the first in list order that matches); a later-listed prefix
\* the remainder starts with is left in place.
C9_AtMostOnePrefix == pc \in {"cleaned", "recleaned"} => Len(removed) <= 1

====
